---- MODULE Spec2Model ----
(***************************************************************************)
(* A model of the crashdetect plugin entry points (Load, AmxLoad,          *)
(* AmxUnload, the file-open hook, the amx_Exec hook and the per-instance   *)
(* AMX hooks) and of the AMX call-stack walker (AMXCallStack).             *)
(*                                                                         *)
(* Strings are sequences of one-character strings, the empty std::string   *)
(* is << >>.  Pointers are small integers, the null pointer is NULL.       *)
(***************************************************************************)
EXTENDS Integers, Sequences, FiniteSets, TLC

\* --------------------------------------------------------------- bounds

\* Number of AMX instances the host may create.
NumAmx == 2
\* Deepest nesting of amx_Exec calls (a native re-entering the VM).
MaxNest == 2
\* Number of coordinator objects the allocator can hand out.
MaxHandlers == 3

\* The null pointer (handler == 0, ext != 0, amx_Exec_sub == 0).
NULL == 0

AMXs == 1..NumAmx
HandlerIds == 1..MaxHandlers

\* ------------------------------------------------------------ the state

VARIABLES
    amx_Exec_code,      \* the first instruction at the amx_Exec entry point:
                        \* "prologue" (not redirected), "jmp ProcessExec"
                        \* or "jmp OtherHook"
    amx_exec_hook,      \* amx_exec_hook is installed
    fopen_hook,         \* fopen_hook (create_file_hook) is installed
    last_amx_path,      \* the pending path
    search_paths,       \* amx_path_finder's search paths, in order
    known_files,        \* amx_path_finder's known files: instance -> path
    crash_handler,      \* the handler given to os::SetCrashHandler
    interrupt_handler,  \* the handler given to os::SetInterruptHandler
    env_AMX_PATH,       \* getenv("AMX_PATH"): "NULL" or a string
    handlers,           \* the registry: instance -> coordinator or NULL
    heap,               \* coordinator objects: id -> its instance, NULL if free
    amx,                \* the AMX structs: hooks and flags of each instance
    calls,              \* amx_Exec invocations in progress, outermost first
    markers,            \* the coordinator's execution-context markers
    ub,                 \* a null coordinator has been dereferenced
    plugin_loaded,      \* host: Load has returned true
    loaded_amx,         \* host: instances attached and not yet detached
    pending_used_by,    \* history: the instance whose AmxLoad first took the
                        \* pending path since the last tracked file open
    lastOp,             \* history: the last entry point and what it returned
    attach,             \* the AmxLoad in progress and its next statement
    mem,                \* walker: the instance's stack memory
    amx_frm,            \* walker: amx->frm, the current frame pointer
    frames_,            \* walker: AMXCallStack::frames_
    walk,               \* walker: history of the last construction
    returned,           \* walker: the frames a caller got from GetFrames
    amx_string,         \* stack frame: the string found in the instance
    string_             \* stack frame: AMXStackFrame::string_

pluginVars == <<amx_Exec_code, amx_exec_hook, fopen_hook, last_amx_path,
                search_paths, known_files, crash_handler, interrupt_handler,
                env_AMX_PATH, handlers, heap, amx, calls, markers, ub,
                plugin_loaded, loaded_amx, pending_used_by, lastOp, attach>>
walkVars == <<mem, amx_frm, frames_, walk, returned>>
frameVars == <<amx_string, string_>>
\* What the plugin's entry points, taken whole, leave as it is.
otherVars == <<walkVars, frameVars, attach>>
vars == <<pluginVars, walkVars, frameVars>>

\* -------------------------------------------------------------- strings

Str_amx == <<"a", "m", "x">>
Str_gamemodes == <<"g", "m">>
Str_filterscripts == <<"f", "s">>

\* The file names the host opens.
FileNames ==
    { <<"g", ".", "a", "m", "x">>,
      <<"f", ".", "A", "m", "X">>,
      <<"s", ".", "t", "x", "t">>,
      <<"a", "m", "x">>,
      <<"h", ".", "a", "m", "x", "x">>,
      <<"d", ".", "a", "m">> }

\* The values of the AMX_PATH environment variable.
EnvValues == { "NULL", "", "p:q" }

ToLower(c) ==
    CASE c = "A" -> "a"
      [] c = "M" -> "m"
      [] c = "X" -> "x"
      [] OTHER -> c

\* The null char pointer; no string holds a character of that name.
NullStr == <<"NULL">>

\* fileutils::GetFileExtensionPtr: the text after the last '.', or the null
\* pointer when the name has no '.'.
GetFileExtensionPtr(filename) ==
    LET dots == { i \in 1..Len(filename) : filename[i] = "." }
    IN  IF dots = {} THEN NullStr
        ELSE LET last == CHOOSE i \in dots : \A j \in dots : j <= i
             IN  SubSeq(filename, last + 1, Len(filename))

\* stringutils::CompareIgnoreCase: 0 when equal up to case, nonzero at the
\* first difference (a shorter string sorts first).
RECURSIVE CompareIgnoreCase(_, _)
CompareIgnoreCase(s, t) ==
    IF s = << >> /\ t = << >> THEN 0
    ELSE IF s = << >> THEN -1
    ELSE IF t = << >> THEN 1
    ELSE IF ToLower(Head(s)) = ToLower(Head(t))
         THEN CompareIgnoreCase(Tail(s), Tail(t))
         ELSE 1

\* stringutils::SplitString on fileutils::kNativePathListSepChar.
SplitString(s) ==
    CASE s = "" -> << >>
      [] s = "p:q" -> << <<"p">>, <<"q">> >>

\* ---------------------------------------------------------------- hooks

\* subhook::Hook::ReadDst: the destination of the jump at the entry point,
\* "NULL" when the entry point holds no jump.
ReadDst(code) ==
    CASE code = "jmp ProcessExec" -> "ProcessExec"
      [] code = "jmp OtherHook" -> "OtherHook"
      [] OTHER -> "NULL"

\* subhook::Hook::Install: overwrite the entry point with a jump.
Install(dst) ==
    CASE dst = "ProcessExec" -> "jmp ProcessExec"
      [] dst = "FopenHook" -> "jmp FopenHook"

Op(op, a, ret, path) ==
    [op |-> op, amx |-> a, ret |-> ret, path |-> path,
     orig |-> "", reported |-> FALSE, handler |-> NULL,
     mode |-> "", real |-> << >>]

NoHooks == [debug |-> "default", callback |-> "default",
            exec_error |-> "default", browse |-> FALSE]

\* No AmxLoad in progress.
NoAttach == [amx |-> NULL, pc |-> 0, loaded |-> FALSE]

\* The plugin before Load: nothing installed, no instance attached.  Another
\* agent may already have redirected amx_Exec.
PluginInit ==
    /\ amx_Exec_code \in {"prologue", "jmp OtherHook"}
    /\ amx_exec_hook = FALSE
    /\ fopen_hook = FALSE
    /\ last_amx_path = << >>
    /\ search_paths = << >>
    /\ known_files = [a \in AMXs |-> << >>]
    /\ crash_handler = "default"
    /\ interrupt_handler = "default"
    /\ env_AMX_PATH \in EnvValues
    /\ handlers = [a \in AMXs |-> NULL]
    /\ heap = [h \in HandlerIds |-> NULL]
    /\ amx = [a \in AMXs |-> NoHooks]
    /\ calls = << >>
    /\ markers = << >>
    /\ ub = FALSE
    /\ plugin_loaded = FALSE
    /\ loaded_amx = {}
    /\ pending_used_by = NULL
    /\ lastOp = Op("none", NULL, "", << >>)
    /\ attach = NoAttach

NoWalk == [built |-> FALSE, arg |-> NULL, start |-> NULL, derefs |-> {},
           failed |-> FALSE]

\* What a caller holds before it has called GetFrames.
NoFrames == [got |-> FALSE, shares |-> FALSE, frames |-> << >>]

\* No call stack under construction.
WalkIdle ==
    /\ mem = << >>
    /\ amx_frm = NULL
    /\ frames_ = << >>
    /\ walk = NoWalk
    /\ returned = NoFrames

\* The string_ of a frame that captured no string.
NoString == [set |-> FALSE, text |-> << >>, truncated |-> FALSE]

\* No stack frame under construction.
FrameIdle ==
    /\ amx_string = << >>
    /\ string_ = NoString

Init == PluginInit /\ WalkIdle /\ FrameIdle

\* ----------------------------------------------------------------- Load

\* Load with the conflict check dropped: the hook is installed over the
\* prior occupant's.
Load_Chain ==
    /\ amx_Exec_code' = Install("ProcessExec")
    /\ amx_exec_hook' = TRUE
    /\ fopen_hook' = TRUE
    /\ search_paths' = search_paths \o <<Str_gamemodes, Str_filterscripts>>
          \o (IF env_AMX_PATH # "NULL" THEN SplitString(env_AMX_PATH) ELSE << >>)
    /\ crash_handler' = "OnCrash"
    /\ interrupt_handler' = "OnInterrupt"
    /\ plugin_loaded' = TRUE
    /\ lastOp' = Op("Load", NULL, "true", << >>)
    /\ UNCHANGED <<last_amx_path, known_files, env_AMX_PATH, handlers, heap,
                   amx, calls, markers, ub, loaded_amx, pending_used_by>>
    /\ UNCHANGED otherVars

\* Load that returns true without the file-open hook or the interrupt
\* handler set up.
Load_PartialSetup ==
    /\ calls = << >>
    /\ IF ReadDst(amx_Exec_code) = "NULL"
       THEN /\ amx_Exec_code' = Install("ProcessExec")
            /\ amx_exec_hook' = TRUE
            /\ search_paths' = search_paths
                  \o <<Str_gamemodes, Str_filterscripts>>
                  \o (IF env_AMX_PATH # "NULL"
                      THEN SplitString(env_AMX_PATH) ELSE << >>)
            /\ crash_handler' = "OnCrash"
            /\ plugin_loaded' = TRUE
            /\ lastOp' = Op("Load", NULL, "true", << >>)
       ELSE /\ lastOp' = Op("Load", NULL, "false", << >>)
            /\ UNCHANGED <<amx_Exec_code, amx_exec_hook, search_paths,
                           crash_handler, plugin_loaded>>
    /\ UNCHANGED <<fopen_hook, interrupt_handler>>
    /\ UNCHANGED <<last_amx_path, known_files, env_AMX_PATH, handlers, heap,
                   amx, calls, markers, ub, loaded_amx, pending_used_by>>
    /\ UNCHANGED otherVars

\* Load with the file-open hook and the fault handlers set up before the
\* conflict check.
Load_EarlySetup ==
    /\ fopen_hook' = TRUE
    /\ crash_handler' = "OnCrash"
    /\ interrupt_handler' = "OnInterrupt"
    /\ IF ReadDst(amx_Exec_code) = "NULL"
       THEN /\ amx_Exec_code' = Install("ProcessExec")
            /\ amx_exec_hook' = TRUE
            /\ search_paths' = search_paths
                  \o <<Str_gamemodes, Str_filterscripts>>
                  \o (IF env_AMX_PATH # "NULL"
                      THEN SplitString(env_AMX_PATH) ELSE << >>)
            /\ plugin_loaded' = TRUE
            /\ lastOp' = Op("Load", NULL, "true", << >>)
       ELSE /\ lastOp' = Op("Load", NULL, "false", << >>)
            /\ UNCHANGED <<amx_Exec_code, amx_exec_hook, search_paths,
                           plugin_loaded>>
    /\ UNCHANGED <<last_amx_path, known_files, env_AMX_PATH, handlers, heap,
                   amx, calls, markers, ub, loaded_amx, pending_used_by>>
    /\ UNCHANGED otherVars

\* Load(ppData).  The host calls it outside any amx_Exec.
Load ==
    /\ calls = << >>
    /\ IF ReadDst(amx_Exec_code) = "NULL"
       THEN /\ amx_Exec_code' = Install("ProcessExec")
            /\ amx_exec_hook' = TRUE
            /\ fopen_hook' = TRUE
            /\ search_paths' = search_paths
                  \o <<Str_gamemodes, Str_filterscripts>>
                  \o (IF env_AMX_PATH # "NULL"
                      THEN SplitString(env_AMX_PATH) ELSE << >>)
            /\ crash_handler' = "OnCrash"
            /\ interrupt_handler' = "OnInterrupt"
            /\ plugin_loaded' = TRUE
            /\ lastOp' = Op("Load", NULL, "true", << >>)
       ELSE /\ lastOp' = Op("Load", NULL, "false", << >>)
            /\ UNCHANGED <<amx_Exec_code, amx_exec_hook, fopen_hook,
                           search_paths, crash_handler, interrupt_handler,
                           plugin_loaded>>
    /\ UNCHANGED <<last_amx_path, known_files, env_AMX_PATH, handlers, heap,
                   amx, calls, markers, ub, loaded_amx, pending_used_by>>
    /\ UNCHANGED otherVars

\* ------------------------------------------------------------ FopenHook

\* The modes files are opened with.
Modes == {"r", "wb"}

\* What the C library's fopen returns: a stream, or NULL when it fails.
FopenResults == {"FILE", "NULL"}

\* subhook::ScopedHookRemove _(&fopen_hook): the hook is out while the
\* object lives, the body of FopenHook, and back when it goes out of scope.
ScopedHookRemove == [during |-> FALSE, after |-> TRUE]

\* fopen(filename, mode) called from FopenHook: the calls the C library's
\* fopen receives.  With the hook out the call arrives there; with the hook
\* in it would come back to FopenHook and never arrive.
CallFopen(hooked, filename, mode) ==
    IF hooked THEN << >> ELSE <<[filename |-> filename, mode |-> mode]>>

\* FopenHook with the extension compared case-sensitively.
FopenHook_CaseSensitive(filename, mode) ==
    /\ fopen_hook
    /\ LET ext == GetFileExtensionPtr(filename)
           scope == ScopedHookRemove
       IN  /\ IF ext # NullStr /\ ext = Str_amx
              THEN /\ last_amx_path' = filename
                   /\ pending_used_by' = NULL
              ELSE UNCHANGED <<last_amx_path, pending_used_by>>
           /\ \E result \in FopenResults :
                 lastOp' = [Op("FopenHook", NULL, result, filename) EXCEPT
                              !.mode = mode,
                              !.orig = result,
                              !.real = CallFopen(scope.during, filename, mode)]
           /\ fopen_hook' = scope.after
    /\ UNCHANGED <<amx_Exec_code, amx_exec_hook, search_paths,
                   known_files, crash_handler, interrupt_handler,
                   env_AMX_PATH, handlers, heap, amx, calls, markers, ub,
                   plugin_loaded, loaded_amx>>
    /\ UNCHANGED otherVars

\* FopenHook that takes the hook out and does not put it back.
FopenHook_PlainRemove(filename, mode) ==
    /\ fopen_hook
    /\ LET ext == GetFileExtensionPtr(filename)
           scope == ScopedHookRemove
       IN  /\ IF ext # NullStr /\ CompareIgnoreCase(ext, Str_amx) = 0
              THEN /\ last_amx_path' = filename
                   /\ pending_used_by' = NULL
              ELSE UNCHANGED <<last_amx_path, pending_used_by>>
           /\ \E result \in FopenResults :
                 lastOp' = [Op("FopenHook", NULL, result, filename) EXCEPT
                              !.mode = mode,
                              !.orig = result,
                              !.real = CallFopen(scope.during, filename, mode)]
           /\ fopen_hook' = scope.during
    /\ UNCHANGED <<amx_Exec_code, amx_exec_hook, search_paths,
                   known_files, crash_handler, interrupt_handler,
                   env_AMX_PATH, handlers, heap, amx, calls, markers, ub,
                   plugin_loaded, loaded_amx>>
    /\ UNCHANGED otherVars

\* FopenHook(filename, mode) (CreateFileAHook on Windows): reached by every
\* fopen while fopen_hook is installed.  The ScopedHookRemove takes the hook
\* out for the call and puts it back when the call returns; the result of
\* the C library's fopen is what FopenHook returns.
FopenHook(filename, mode) ==
    /\ fopen_hook
    /\ LET ext == GetFileExtensionPtr(filename)
           scope == ScopedHookRemove
       IN  /\ IF ext # NullStr /\ CompareIgnoreCase(ext, Str_amx) = 0
              THEN /\ last_amx_path' = filename
                   /\ pending_used_by' = NULL
              ELSE UNCHANGED <<last_amx_path, pending_used_by>>
           /\ \E result \in FopenResults :
                 lastOp' = [Op("FopenHook", NULL, result, filename) EXCEPT
                              !.mode = mode,
                              !.orig = result,
                              !.real = CallFopen(scope.during, filename, mode)]
           /\ fopen_hook' = scope.after
    /\ UNCHANGED <<amx_Exec_code, amx_exec_hook, search_paths,
                   known_files, crash_handler, interrupt_handler,
                   env_AMX_PATH, handlers, heap, amx, calls, markers, ub,
                   plugin_loaded, loaded_amx>>
    /\ UNCHANGED otherVars

\* ------------------------------------------------------------ registry

\* CrashDetectHandler::GetHandler: the coordinator registered for the
\* instance, NULL when there is none.
GetHandler(a) == handlers[a]

FreeIds == { h \in HandlerIds : heap[h] = NULL }

\* CrashDetectHandler::CreateHandler: allocate a coordinator for the instance
\* and register it.  The result is the new registry, heap and coordinator.
CreateHandler(a) ==
    LET h == CHOOSE f \in FreeIds : \A g \in FreeIds : f <= g
    IN  [handlers |-> [handlers EXCEPT ![a] = h],
         heap |-> [heap EXCEPT ![h] = a],
         handler |-> h]

\* CrashDetectHandler::DestroyHandler: unregister the instance's coordinator
\* and delete it.
DestroyHandler(a) ==
    [handlers |-> [handlers EXCEPT ![a] = NULL],
     heap |-> [h \in HandlerIds |->
                  IF h = handlers[a] THEN NULL ELSE heap[h]]]

\* CrashDetectHandler::Unload: deregister the instance's debug hook,
\* native-callback hook and exec-error handler.
HandlerUnload(a) ==
    [amx EXCEPT ![a] = [@ EXCEPT !.debug = "default",
                                 !.callback = "default",
                                 !.exec_error = "default"]]

\* amx_SetDebugHook, amx_SetCallback, amx_SetExecErrorHandler.
SetHooks(a) ==
    [amx EXCEPT ![a] = [@ EXCEPT !.debug = "ProcessDebugHook",
                                 !.callback = "ProcessCallback",
                                 !.exec_error = "ProcessExecError"]]

\* The instances with an amx_Exec in progress.
Executing == { calls[i].amx : i \in DOMAIN calls }

\* -------------------------------------------------------------- AmxLoad

\* AmxLoad(amx).  The host calls it once for an instance it has created,
\* after Load has returned true.
AmxLoad(a) ==
    /\ plugin_loaded
    /\ a \notin loaded_amx
    /\ FreeIds # {}
    /\ LET taken == Len(last_amx_path) # 0
           created == CreateHandler(a)
       IN  /\ known_files' = IF taken
                             THEN [known_files EXCEPT ![a] = last_amx_path]
                             ELSE known_files
           /\ pending_used_by' = IF taken /\ pending_used_by = NULL
                                 THEN a ELSE pending_used_by
           /\ handlers' = created.handlers
           /\ heap' = created.heap
           /\ amx' = SetHooks(a)
           /\ lastOp' = Op("AmxLoad", a, "AMX_ERR_NONE",
                           IF taken THEN last_amx_path ELSE << >>)
    /\ loaded_amx' = loaded_amx \cup {a}
    /\ UNCHANGED <<amx_Exec_code, amx_exec_hook, fopen_hook, last_amx_path,
                   search_paths, crash_handler, interrupt_handler,
                   env_AMX_PATH, calls, markers, ub, plugin_loaded>>
    /\ UNCHANGED otherVars

\* AmxLoad that registers the hooks on the instance first.
AmxLoadOrder_HooksFirst ==
    <<"AddKnownFile", "SetHooks", "CreateHandler", "HandlerLoad",
      "RegisterNatives">>

\* The statements of AmxLoad, in the order it runs them.
AmxLoadOrder ==
    <<"AddKnownFile", "CreateHandler", "HandlerLoad", "SetHooks",
      "RegisterNatives">>

\* The host calls AmxLoad(amx): the call is entered.
AmxLoadBegin(a) ==
    /\ plugin_loaded
    /\ attach = NoAttach
    /\ a \notin loaded_amx
    /\ FreeIds # {}
    /\ attach' = [amx |-> a, pc |-> 1, loaded |-> FALSE]
    /\ UNCHANGED <<amx_Exec_code, amx_exec_hook, fopen_hook, last_amx_path,
                   search_paths, known_files, crash_handler,
                   interrupt_handler, env_AMX_PATH, handlers, heap, amx,
                   calls, markers, ub, plugin_loaded, loaded_amx,
                   pending_used_by, lastOp>>
    /\ UNCHANGED <<walkVars, frameVars>>

\* The AmxLoad in progress runs its next statement; after the last one it
\* returns AMX_ERR_NONE.
AmxLoadStep ==
    /\ attach # NoAttach
    /\ LET a == attach.amx
           stmt == AmxLoadOrder[attach.pc]
           last == attach.pc = Len(AmxLoadOrder)
           taken == Len(last_amx_path) # 0
       IN  /\ known_files' = IF stmt = "AddKnownFile" /\ taken
                             THEN [known_files EXCEPT ![a] = last_amx_path]
                             ELSE known_files
           /\ pending_used_by' =
                  IF stmt = "AddKnownFile" /\ taken /\ pending_used_by = NULL
                  THEN a ELSE pending_used_by
           /\ handlers' = IF stmt = "CreateHandler"
                          THEN CreateHandler(a).handlers ELSE handlers
           /\ heap' = IF stmt = "CreateHandler"
                      THEN CreateHandler(a).heap ELSE heap
           /\ ub' = (ub \/ (stmt = "HandlerLoad" /\ GetHandler(a) = NULL))
           /\ amx' = IF stmt = "SetHooks" THEN SetHooks(a) ELSE amx
           /\ attach' = IF last THEN NoAttach
                        ELSE [attach EXCEPT
                                 !.pc = @ + 1,
                                 !.loaded = @ \/ (stmt = "HandlerLoad"
                                                  /\ GetHandler(a) # NULL)]
           /\ loaded_amx' = IF last THEN loaded_amx \cup {a} ELSE loaded_amx
           /\ lastOp' = IF last
                        THEN Op("AmxLoad", a, "AMX_ERR_NONE",
                                IF taken THEN last_amx_path ELSE << >>)
                        ELSE lastOp
    /\ UNCHANGED <<amx_Exec_code, amx_exec_hook, fopen_hook, last_amx_path,
                   search_paths, crash_handler, interrupt_handler,
                   env_AMX_PATH, calls, markers, plugin_loaded>>
    /\ UNCHANGED <<walkVars, frameVars>>

\* The instance's debug hook, callback or exec-error handler is called: it
\* can be from the moment it is registered on the instance.
HookCalled(op, a) ==
    /\ \/ op = "ProcessDebugHook" /\ amx[a].debug = op
       \/ op = "ProcessCallback" /\ amx[a].callback = op
       \/ op = "ProcessExecError" /\ amx[a].exec_error = op
    /\ ub' = (ub \/ GetHandler(a) = NULL)
    /\ lastOp' = [Op(op, a, "", << >>) EXCEPT !.handler = GetHandler(a)]
    /\ UNCHANGED <<amx_Exec_code, amx_exec_hook, fopen_hook, last_amx_path,
                   search_paths, known_files, crash_handler,
                   interrupt_handler, env_AMX_PATH, handlers, heap, amx,
                   calls, markers, plugin_loaded, loaded_amx,
                   pending_used_by>>
    /\ UNCHANGED otherVars

\* ------------------------------------------------------------ AmxUnload

\* AmxUnload that destroys the coordinator without calling its Unload.
AmxUnload_NoUnload(a) ==
    /\ a \in loaded_amx
    /\ a \notin Executing
    /\ GetHandler(a) # NULL
    /\ handlers' = DestroyHandler(a).handlers
    /\ heap' = DestroyHandler(a).heap
    /\ loaded_amx' = loaded_amx \ {a}
    /\ lastOp' = Op("AmxUnload", a, "AMX_ERR_NONE", << >>)
    /\ UNCHANGED <<amx, ub>>
    /\ UNCHANGED <<amx_Exec_code, amx_exec_hook, fopen_hook, last_amx_path,
                   search_paths, known_files, crash_handler,
                   interrupt_handler, env_AMX_PATH, calls, markers,
                   plugin_loaded, pending_used_by>>
    /\ UNCHANGED otherVars

\* AmxUnload that calls the coordinator's Unload and never destroys it.
AmxUnload_NoDestroy(a) ==
    /\ a \in loaded_amx
    /\ a \notin Executing
    /\ GetHandler(a) # NULL
    /\ amx' = HandlerUnload(a)
    /\ loaded_amx' = loaded_amx \ {a}
    /\ lastOp' = Op("AmxUnload", a, "AMX_ERR_NONE", << >>)
    /\ UNCHANGED <<handlers, heap, ub>>
    /\ UNCHANGED <<amx_Exec_code, amx_exec_hook, fopen_hook, last_amx_path,
                   search_paths, known_files, crash_handler,
                   interrupt_handler, env_AMX_PATH, calls, markers,
                   plugin_loaded, pending_used_by>>
    /\ UNCHANGED otherVars

\* AmxUnload(amx).  The host calls it for an attached instance that is not
\* executing.  GetHandler(amx)->Unload() dereferences the registry's answer.
AmxUnload(a) ==
    /\ a \in loaded_amx
    /\ a \notin Executing
    /\ IF GetHandler(a) = NULL
       THEN /\ ub' = TRUE
            /\ UNCHANGED <<amx, handlers, heap>>
       ELSE /\ amx' = HandlerUnload(a)
            /\ handlers' = DestroyHandler(a).handlers
            /\ heap' = DestroyHandler(a).heap
            /\ UNCHANGED ub
    /\ loaded_amx' = loaded_amx \ {a}
    /\ lastOp' = Op("AmxUnload", a, "AMX_ERR_NONE", << >>)
    /\ UNCHANGED <<amx_Exec_code, amx_exec_hook, fopen_hook, last_amx_path,
                   search_paths, known_files, crash_handler,
                   interrupt_handler, env_AMX_PATH, calls, markers,
                   plugin_loaded, pending_used_by>>
    /\ UNCHANGED otherVars

\* ---------------------------------------------------------- ProcessExec

\* The codes the original amx_Exec returns.
ErrorCodes == { "AMX_ERR_NONE", "AMX_ERR_BOUNDS", "AMX_ERR_DIVIDE" }

\* ProcessExec that hands the call to the first coordinator of the registry,
\* whichever instance it was created for.
ProcessExecRoute_FirstCoordinator(a) ==
    IF amx[a].browse THEN NULL
    ELSE IF \A b \in AMXs : GetHandler(b) = NULL THEN NULL
    ELSE GetHandler(CHOOSE b \in AMXs :
             /\ GetHandler(b) # NULL
             /\ \A c \in AMXs : GetHandler(c) # NULL => b <= c)

\* ProcessExec with the browse test dropped.
ProcessExecRoute_IgnoreBrowse(a) == GetHandler(a)

\* ProcessExec, on entry: the coordinator the call is handed to, NULL when
\* ProcessExec calls the original amx_Exec itself.
ProcessExecRoute(a) ==
    IF amx[a].browse THEN NULL
    ELSE IF GetHandler(a) = NULL THEN NULL
    ELSE GetHandler(a)

\* CrashDetectHandler::ProcessExec, on entry: push an execution-context
\* marker for the coordinator's instance.
HandlerProcessExecEnter(h) == Append(markers, heap[h])

\* CrashDetectHandler::ProcessExec, once the original amx_Exec has returned
\* code: report a non-success code, pop the marker, hand the code back.
HandlerProcessExecReturn(code) ==
    [ret |-> code,
     reported |-> (code # "AMX_ERR_NONE"),
     markers |-> SubSeq(markers, 1, Len(markers) - 1)]

\* ProcessExec that drops the coordinator's return code.
ProcessExecReturn_Swallow(h, code) ==
    IF h = NULL
    THEN [ret |-> code, reported |-> FALSE, markers |-> markers]
    ELSE [HandlerProcessExecReturn(code) EXCEPT !.ret = "AMX_ERR_NONE"]

\* ProcessExec, on return: what it hands back to its caller.
ProcessExecReturn(h, code) ==
    IF h = NULL
    THEN [ret |-> code, reported |-> FALSE, markers |-> markers]
    ELSE HandlerProcessExecReturn(code)

\* A call of amx_Exec(amx, retval, index) enters ProcessExec: by the host, or
\* by a native of the instance that is executing.  The frame keeps what held
\* of the instance when it was entered.
ExecEnter(a) ==
    /\ ReadDst(amx_Exec_code) = "ProcessExec"
    /\ Len(calls) < MaxNest
    /\ LET h == ProcessExecRoute(a)
       IN  /\ calls' = Append(calls, [amx |-> a, handler |-> h,
                                      browse |-> amx[a].browse,
                                      registered |-> (handlers[a] # NULL)])
           /\ markers' = IF h # NULL THEN HandlerProcessExecEnter(h)
                         ELSE markers
           /\ lastOp' = [Op("ExecEnter", a, "", << >>) EXCEPT !.handler = h]
    /\ UNCHANGED <<amx_Exec_code, amx_exec_hook, fopen_hook, last_amx_path,
                   search_paths, known_files, crash_handler,
                   interrupt_handler, env_AMX_PATH, handlers, heap, amx, ub,
                   plugin_loaded, loaded_amx, pending_used_by>>
    /\ UNCHANGED otherVars

\* The innermost amx_Exec returns code, and ProcessExec returns to its caller.
ExecReturn(code) ==
    /\ calls # << >>
    /\ LET f == calls[Len(calls)]
           r == ProcessExecReturn(f.handler, code)
       IN  /\ calls' = SubSeq(calls, 1, Len(calls) - 1)
           /\ markers' = r.markers
           /\ lastOp' = [Op("ExecReturn", f.amx, r.ret, << >>) EXCEPT
                            !.orig = code,
                            !.reported = r.reported,
                            !.handler = f.handler]
    /\ UNCHANGED <<amx_Exec_code, amx_exec_hook, fopen_hook, last_amx_path,
                   search_paths, known_files, crash_handler,
                   interrupt_handler, env_AMX_PATH, handlers, heap, amx, ub,
                   plugin_loaded, loaded_amx, pending_used_by>>
    /\ UNCHANGED otherVars

\* The host sets or clears AMX_FLAG_BROWSE around its own amx_Exec call.
SetBrowse(a) ==
    /\ a \notin Executing
    /\ amx' = [amx EXCEPT ![a].browse = ~@]
    /\ lastOp' = Op("SetBrowse", a, "", << >>)
    /\ UNCHANGED <<amx_Exec_code, amx_exec_hook, fopen_hook, last_amx_path,
                   search_paths, known_files, crash_handler,
                   interrupt_handler, env_AMX_PATH, handlers, heap, calls,
                   markers, ub, plugin_loaded, loaded_amx, pending_used_by>>
    /\ UNCHANGED otherVars

\* -------------------------------------------------- per-instance hooks

\* The instance the VM is executing.
Running == IF calls = << >> THEN NULL ELSE calls[Len(calls)].amx

\* A hook dispatched by the VM reads the registry and calls through the
\* answer.
Dispatch(op, a) ==
    /\ Running = a
    /\ ub' = (ub \/ GetHandler(a) = NULL)
    /\ lastOp' = [Op(op, a, "", << >>) EXCEPT !.handler = GetHandler(a)]
    /\ UNCHANGED <<amx_Exec_code, amx_exec_hook, fopen_hook, last_amx_path,
                   search_paths, known_files, crash_handler,
                   interrupt_handler, env_AMX_PATH, handlers, heap, amx,
                   calls, markers, plugin_loaded, loaded_amx,
                   pending_used_by>>
    /\ UNCHANGED otherVars

\* ProcessDebugHook(amx): the VM calls amx->debug at a statement boundary.
ProcessDebugHook(a) ==
    /\ amx[a].debug = "ProcessDebugHook"
    /\ Dispatch("ProcessDebugHook", a)

\* ProcessCallback(amx, index, result, params): the VM calls amx->callback
\* to dispatch a native.
ProcessCallback(a) ==
    /\ amx[a].callback = "ProcessCallback"
    /\ Dispatch("ProcessCallback", a)

\* ProcessExecError(amx, index, retval, error): the VM calls the exec-error
\* handler when a runtime error ends the execution.
ProcessExecError(a) ==
    /\ amx[a].exec_error = "ProcessExecError"
    /\ Dispatch("ProcessExecError", a)

\* --------------------------------------------------------- AMXCallStack

\* Number of frame records the instance's stack region holds.
NFrames == 3

\* The deepest call stack the walker builds.
kMaxDepth == 2

\* The addresses inside the instance's stack/data bounds.
StackAddrs == 1..NFrames
\* The values a frame pointer can hold: the root (0), an address inside the
\* bounds, or one beyond them.
FramePtrs == 0..(NFrames + 1)
\* The return addresses found in the frame records: the walker copies them
\* and never branches on them, so two assignments that give every record its
\* own return address stand for all.
RetMaps == { [a \in StackAddrs |-> 100 + 4 * a],
             [a \in StackAddrs |-> 200 - 4 * a] }
\* The contents of the stack region: any links, sound or corrupted.
Memories ==
    { [a \in StackAddrs |-> [prev |-> links[a], ret |-> rets[a]]] :
        links \in [StackAddrs -> FramePtrs], rets \in RetMaps }

InBounds(frm) == frm \in StackAddrs

\* AMXStackFrame(amx, frameAddr, debugInfo): the frame at frameAddr, with the
\* return address read from its record.
AMXStackFrame(frm) == [frameAddr |-> frm, retAddr |-> mem[frm].ret]

\* A walk whose depth cutoff comes one frame late.
RECURSIVE WalkFrom_LateCutoff(_, _)
WalkFrom_LateCutoff(frm, depth) ==
    IF frm = 0 \/ depth > kMaxDepth \/ ~InBounds(frm)
    THEN [frames |-> << >>, derefs |-> {}, failed |-> FALSE]
    ELSE LET rest == WalkFrom_LateCutoff(mem[frm].prev, depth + 1)
         IN  [frames |-> <<AMXStackFrame(frm)>> \o rest.frames,
              derefs |-> {frm} \cup rest.derefs,
              failed |-> rest.failed]

\* A walk that builds the frame for its frame pointer before it tests it.
RECURSIVE WalkFrom_TestAfter(_, _)
WalkFrom_TestAfter(frm, depth) ==
    LET first == [frameAddr |-> frm,
                  retAddr |-> IF InBounds(frm) THEN mem[frm].ret ELSE 0]
    IN  IF frm = 0 \/ depth + 1 >= kMaxDepth \/ ~InBounds(frm)
        THEN [frames |-> <<first>>, derefs |-> {}, failed |-> FALSE]
        ELSE LET rest == WalkFrom_TestAfter(mem[frm].prev, depth + 1)
             IN  [frames |-> <<first>> \o rest.frames,
                  derefs |-> {frm} \cup rest.derefs,
                  failed |-> rest.failed]

\* The walk of AMXCallStack's constructor from frame pointer frm with depth
\* frames already built: it ends at the root, at the depth cutoff, or at a
\* frame pointer outside the bounds, and reads a record only after that test.
RECURSIVE WalkFrom(_, _)
WalkFrom(frm, depth) ==
    IF frm = 0 \/ depth >= kMaxDepth \/ ~InBounds(frm)
    THEN [frames |-> << >>, derefs |-> {}, failed |-> FALSE]
    ELSE LET rest == WalkFrom(mem[frm].prev, depth + 1)
         IN  [frames |-> <<AMXStackFrame(frm)>> \o rest.frames,
              derefs |-> {frm} \cup rest.derefs,
              failed |-> rest.failed]

\* The frame pointer the constructor starts from: its argument, or the
\* current frame amx->frm when the argument is left at its default, 0.
StartFrame(frame) == IF frame = 0 THEN amx_frm ELSE frame

\* AMXCallStack::AMXCallStack(amx, debugInfo, frame).
Construct(frame) ==
    /\ ~walk.built
    /\ mem # << >>
    /\ LET w == WalkFrom(StartFrame(frame), 0)
       IN  /\ frames_' = w.frames
           /\ walk' = [built |-> TRUE, arg |-> frame,
                       start |-> StartFrame(frame),
                       derefs |-> w.derefs, failed |-> w.failed]
    /\ UNCHANGED <<mem, amx_frm, returned>>
    /\ UNCHANGED frameVars
    /\ UNCHANGED pluginVars

\* GetFrames that loses the innermost frame.
GetFrames_DropFirst == IF frames_ = << >> THEN << >> ELSE Tail(frames_)

\* GetFrames that hands the frames back outermost first.
GetFrames_Reversed ==
    [i \in 1..Len(frames_) |-> frames_[Len(frames_) + 1 - i]]

\* AMXCallStack::GetFrames: a copy of frames_.
GetFrames == frames_

\* An instance stopped anywhere, with any stack memory, sound or corrupted.
WalkInit ==
    /\ PluginInit
    /\ amx_Exec_code = "prologue"
    /\ env_AMX_PATH = "NULL"
    /\ mem \in Memories
    /\ amx_frm \in FramePtrs
    /\ frames_ = << >>
    /\ walk = NoWalk
    /\ returned = NoFrames
    /\ FrameIdle

WalkNext == \E frame \in FramePtrs : Construct(frame)

WalkSpec == WalkInit /\ [][WalkNext]_vars

\* AmxLoad statement by statement, with the hooks of an instance called at
\* any moment they are registered.
AttachNext ==
    \/ attach = NoAttach /\ Load
    \/ \E filename \in FileNames, mode \in Modes :
          attach = NoAttach /\ FopenHook(filename, mode)
    \/ \E a \in AMXs : AmxLoadBegin(a)
    \/ AmxLoadStep
    \/ \E a \in AMXs : attach = NoAttach /\ AmxUnload(a)
    \/ \E a \in AMXs :
          \E op \in {"ProcessDebugHook", "ProcessCallback", "ProcessExecError"} :
             HookCalled(op, a)

AttachSpec == Init /\ [][AttachNext]_vars

\* ------------------------------------------- the call stack as a snapshot

\* A GetFrames that hands the caller frames_ itself.
ReturnedFrames_ByReference == [got |-> TRUE, shares |-> TRUE, frames |-> frames_]

\* What a call of GetFrames hands the caller: std::deque<AMXStackFrame> by
\* value, a copy that shares nothing with frames_.
ReturnedFrames == [got |-> TRUE, shares |-> FALSE, frames |-> frames_]

\* A caller calls GetFrames on the call stack.
CallGetFrames ==
    /\ walk.built
    /\ ~returned.got
    /\ returned' = ReturnedFrames
    /\ UNCHANGED <<mem, amx_frm, frames_, walk>>
    /\ UNCHANGED frameVars
    /\ UNCHANGED pluginVars

\* The caller removes the first frame of the sequence it was handed.
CallerPopFront ==
    /\ returned.got
    /\ returned.frames # << >>
    /\ returned' = [returned EXCEPT !.frames = Tail(@)]
    /\ frames_' = IF returned.shares THEN Tail(frames_) ELSE frames_
    /\ UNCHANGED <<mem, amx_frm, walk>>
    /\ UNCHANGED frameVars
    /\ UNCHANGED pluginVars

\* The instance runs on: a call or a return moves amx->frm.
VMSetFrm(frm) ==
    /\ mem # << >>
    /\ frm # amx_frm
    /\ amx_frm' = frm
    /\ UNCHANGED <<mem, frames_, walk, returned>>
    /\ UNCHANGED frameVars
    /\ UNCHANGED pluginVars

\* The instance runs on: the link of a frame record is overwritten.
VMWrite(a, link) ==
    /\ mem # << >>
    /\ link # mem[a].prev
    /\ mem' = [mem EXCEPT ![a].prev = link]
    /\ UNCHANGED <<amx_frm, frames_, walk, returned>>
    /\ UNCHANGED frameVars
    /\ UNCHANGED pluginVars

\* An instance with an empty stack, about to run.
SnapInit ==
    /\ PluginInit
    /\ amx_Exec_code = "prologue"
    /\ env_AMX_PATH = "NULL"
    /\ mem = [a \in StackAddrs |-> [prev |-> 0, ret |-> 100 + 4 * a]]
    /\ amx_frm = 0
    /\ frames_ = << >>
    /\ walk = NoWalk
    /\ returned = NoFrames
    /\ FrameIdle

\* The call stack is built from the current frame, the constructor's default.
SnapNext ==
    \/ Construct(0)
    \/ CallGetFrames
    \/ CallerPopFront
    \/ \E frm \in FramePtrs : VMSetFrm(frm)
    \/ \E a \in StackAddrs, link \in FramePtrs : VMWrite(a, link)

SnapSpec == SnapInit /\ [][SnapNext]_vars

\* -------------------------------------------------------- AMXStackFrame

\* AMXStackFrame::kMaxString.
kMaxString == 30

\* The longest string the instance holds.
MaxStrLen == 32

\* The characters of the instance's strings.
StrChars == <<"a", "b", "c">>

\* The string of length len that starts at the k-th character and goes
\* round the characters: no two positions in a row hold the same one.
StringOf(len, k) == [i \in 1..len |-> StrChars[((i + k) % Len(StrChars)) + 1]]

\* The strings the instance can hold.
Strings == { StringOf(len, k) : len \in 0..MaxStrLen, k \in 1..Len(StrChars) }

\* A capture that clips a string of exactly the maximum length too.
CaptureString_ClipsAtMax(s) ==
    IF Len(s) >= kMaxString
    THEN [set |-> TRUE, text |-> SubSeq(s, 1, kMaxString - 1),
          truncated |-> TRUE]
    ELSE [set |-> TRUE, text |-> s, truncated |-> FALSE]

\* The bounded snapshot of string s a stack frame keeps: at most kMaxString
\* characters, marked when characters were left out.
CaptureString(s) ==
    IF Len(s) > kMaxString
    THEN [set |-> TRUE, text |-> SubSeq(s, 1, kMaxString), truncated |-> TRUE]
    ELSE [set |-> TRUE, text |-> s, truncated |-> FALSE]

\* AMXStackFrame::Init for a frame with a string to capture.
FrameInit ==
    /\ ~string_.set
    /\ string_' = CaptureString(amx_string)
    /\ UNCHANGED amx_string
    /\ UNCHANGED walkVars
    /\ UNCHANGED pluginVars

\* AMXStackFrame::GetString.
GetString == string_

\* An instance holding any string, before a frame captures it.
FrameSpecInit ==
    /\ PluginInit
    /\ amx_Exec_code = "prologue"
    /\ env_AMX_PATH = "NULL"
    /\ WalkIdle
    /\ amx_string \in Strings
    /\ string_ = NoString

FrameNext == FrameInit

FrameSpec == FrameSpecInit /\ [][FrameNext]_vars

\* ------------------------------------------------------- specifications

\* The plugin's life cycle as the host drives it.
Next ==
    \/ Load
    \/ \E filename \in FileNames, mode \in Modes : FopenHook(filename, mode)
    \/ \E a \in AMXs : AmxLoad(a)
    \/ \E a \in AMXs : AmxUnload(a)

Spec == Init /\ [][Next]_vars

\* Execution: the life cycle of the instances, and the VM running them.
ExecNext ==
    \/ Load
    \/ \E a \in AMXs : AmxLoad(a)
    \/ \E a \in AMXs : AmxUnload(a)
    \/ \E a \in AMXs : SetBrowse(a)
    \/ \E a \in AMXs : ExecEnter(a)
    \/ \E code \in ErrorCodes : ExecReturn(code)
    \/ \E a \in AMXs : ProcessDebugHook(a)
    \/ \E a \in AMXs : ProcessCallback(a)
    \/ \E a \in AMXs : ProcessExecError(a)

ExecSpec == Init /\ [][ExecNext]_vars

\* --------------------------------------------------------------- claims

\* C1: when Load runs while the amx_Exec entry point is already redirected
\* (ReadDst yields non-null), Load returns false, installs no execute hook
\* of its own, and the entry point still jumps where it jumped before; with
\* another agent's hook in place it still reaches that hook and nothing else.
C1_LoadDeclinesOccupiedEntry ==
    [][ (lastOp'.op = "Load" /\ ReadDst(amx_Exec_code) # "NULL")
        => /\ lastOp'.ret = "false"
           /\ amx_Exec_code' = amx_Exec_code
           /\ amx_exec_hook' = amx_exec_hook
           /\ (ReadDst(amx_Exec_code) = "OtherHook"
                 => ~amx_exec_hook' /\ ReadDst(amx_Exec_code') = "OtherHook")
      ]_vars

C1_Witness ==
    /\ lastOp.op = "Load"
    /\ lastOp.ret = "false"
    /\ ReadDst(amx_Exec_code) = "OtherHook"
    /\ ~amx_exec_hook

HooksOf(a) == { amx[a].debug, amx[a].callback, amx[a].exec_error }
PluginHooks == { "ProcessDebugHook", "ProcessCallback", "ProcessExecError" }

\* C2: no null coordinator is ever dereferenced, and an instance carries one
\* of the plugin's hooks (debug, native-callback, exec-error) only while the
\* registry holds a live coordinator for it; after AmxUnload the instance
\* carries none of them and has no coordinator.
C2_NoHookWithoutCoordinator ==
    /\ ~ub
    /\ \A a \in AMXs :
          HooksOf(a) \cap PluginHooks # {}
            => GetHandler(a) # NULL /\ heap[GetHandler(a)] = a
    /\ lastOp.op = "AmxUnload"
          => HooksOf(lastOp.amx) \cap PluginHooks = {}

\* An instance has been detached while another one, still attached, is
\* running with its hooks in place.
C2_Witness ==
    /\ lastOp.op = "AmxUnload"
    /\ HooksOf(lastOp.amx) = {"default"}
    /\ GetHandler(lastOp.amx) = NULL
    /\ \E b \in AMXs : Running = b /\ HooksOf(b) = PluginHooks

CoordinatorsOf(a) == { h \in HandlerIds : heap[h] = a }

\* C3: every instance that has been loaded and not yet unloaded has exactly
\* one coordinator, the one the registry gives for it; an instance that was
\* unloaded or never loaded has none, in the registry or on the heap.
C3_OneCoordinatorPerLiveInstance ==
    \A a \in AMXs :
        IF a \in loaded_amx
        THEN GetHandler(a) # NULL /\ CoordinatorsOf(a) = {GetHandler(a)}
        ELSE GetHandler(a) = NULL /\ CoordinatorsOf(a) = {}

C3_Witness ==
    /\ lastOp.op = "AmxUnload"
    /\ \E b \in loaded_amx : b # lastOp.amx
    /\ CoordinatorsOf(lastOp.amx) = {}

\* C4: once an AmxLoad has associated the pending path with an instance, an
\* AmxLoad for another instance, with no tracked file open in between, does
\* not associate that path with the new instance.
C4_PendingPathConsumedOnce ==
    [][ (lastOp'.op = "AmxLoad" /\ pending_used_by \notin {NULL, lastOp'.amx})
        => lastOp'.path # last_amx_path ]_vars

\* The last '.' of the name is followed by exactly "amx", in any case.
TrackedExtension(name) ==
    \E i \in 1..Len(name) :
        /\ name[i] = "."
        /\ \A j \in (i + 1)..Len(name) : name[j] # "."
        /\ Len(name) = i + 3
        /\ ToLower(name[i + 1]) = "a"
        /\ ToLower(name[i + 2]) = "m"
        /\ ToLower(name[i + 3]) = "x"

\* C5: a file open through the hook leaves the pending path unchanged when
\* the name has no extension or another extension than "amx" (comparing
\* without case), and makes the pending path exactly that name when the
\* extension is "amx" in any case.
C5_FopenTracksAmxExtension ==
    [][ lastOp'.op = "FopenHook"
        => IF TrackedExtension(lastOp'.path)
           THEN last_amx_path' = lastOp'.path
           ELSE last_amx_path' = last_amx_path ]_vars

\* A name with the extension in mixed case has replaced the pending path.
C5_Witness ==
    /\ lastOp.op = "FopenHook"
    /\ lastOp.path = <<"f", ".", "A", "m", "X">>
    /\ last_amx_path = lastOp.path
    /\ pending_used_by = NULL
    /\ \E a \in AMXs : known_files[a] = <<"g", ".", "a", "m", "x">>

\* C6: a Load that returns false changes nothing: no file-open hook, no
\* crash handler, no interrupt handler, no search path, no execute hook.
C6_FailedLoadChangesNothing ==
    [][ (lastOp'.op = "Load" /\ lastOp'.ret = "false")
        => UNCHANGED <<amx_Exec_code, amx_exec_hook, fopen_hook,
                       last_amx_path, search_paths, known_files,
                       crash_handler, interrupt_handler, env_AMX_PATH,
                       handlers, heap, amx, calls, markers, ub,
                       plugin_loaded, loaded_amx>> ]_vars

C6_Witness ==
    /\ lastOp.op = "Load"
    /\ lastOp.ret = "false"
    /\ ~fopen_hook
    /\ crash_handler = "default"
    /\ interrupt_handler = "default"
    /\ search_paths = << >>
    /\ ~plugin_loaded

\* C7: an amx_Exec call handed to a coordinator returns to its caller the
\* code the original amx_Exec returned, and the error is reported exactly
\* when that code is not AMX_ERR_NONE.
C7_ExecReturnsOriginalCode ==
    (lastOp.op = "ExecReturn" /\ lastOp.handler # NULL)
      => /\ lastOp.ret = lastOp.orig
         /\ lastOp.reported <=> (lastOp.orig # "AMX_ERR_NONE")

\* A nested execution has returned an error through its coordinator.
C7_Witness ==
    /\ lastOp.op = "ExecReturn"
    /\ lastOp.handler # NULL
    /\ lastOp.orig = "AMX_ERR_DIVIDE"
    /\ lastOp.ret = "AMX_ERR_DIVIDE"
    /\ lastOp.reported
    /\ calls # << >>

\* C8 as stated: the marker depth equals the number of amx_Exec entries
\* that have not yet returned.
C8_DepthCountsEveryEntry == Len(markers) = Len(calls)

\* The entries in progress that found, on entry, the instance without
\* AMX_FLAG_BROWSE and with a coordinator in the registry.
CoordinatedCalls ==
    SelectSeq(calls, LAMBDA f : ~f.browse /\ f.registered)

\* C8, amended: the markers are balanced over the entries handed to a
\* coordinator: the depth equals the number of entries in progress that were
\* made for an instance without AMX_FLAG_BROWSE and with a coordinator, the
\* markers name those instances in order, and none is left once the outermost
\* entry has returned, whatever the codes returned.
C8_MarkersBalanced ==
    /\ Len(markers) = Len(CoordinatedCalls)
    /\ \A i \in DOMAIN markers : markers[i] = CoordinatedCalls[i].amx
    /\ calls = << >> => markers = << >>

\* An error return has popped the inner marker of a nested execution.
C8_Witness ==
    /\ lastOp.op = "ExecReturn"
    /\ lastOp.orig # "AMX_ERR_NONE"
    /\ lastOp.handler # NULL
    /\ Len(calls) >= 1
    /\ Len(markers) = Len(calls)

\* The candidate frame chains: sequences of addresses inside the bounds.
ChainSeqs == UNION { [1..n -> StackAddrs] : n \in 0..NFrames }

\* c is the chain from frame pointer start: its first address is start and
\* each next one is the previous-frame link saved in the record before it.
FollowsLinks(c, start) ==
    \A i \in 1..Len(c) :
        c[i] = IF i = 1 THEN start ELSE mem[c[i - 1]].prev

\* The link that follows the last frame of the chain.
EndLink(c, start) == IF c = << >> THEN start ELSE mem[c[Len(c)]].prev

\* The frames of the chain, innermost first, with the frame address and the
\* return address of each record.
FramesOf(c) ==
    [i \in 1..Len(c) |-> [frameAddr |-> c[i], retAddr |-> mem[c[i]].ret]]

RootChain(c) ==
    FollowsLinks(c, walk.start) /\ EndLink(c, walk.start) = 0

\* The chain reaches, after Len(c) frames, a frame pointer that is neither
\* the root nor inside the bounds.
BrokenChain(c) ==
    /\ FollowsLinks(c, walk.start)
    /\ EndLink(c, walk.start) # 0
    /\ ~InBounds(EndLink(c, walk.start))

\* C9 as stated: a chain of N frames ending in the root gives exactly those
\* N frames, innermost first, whatever N.
C9_RootChainGivesAllFrames ==
    walk.built
      => \A c \in ChainSeqs : RootChain(c) => GetFrames = FramesOf(c)

\* C9, amended: a chain of N frames ending in the root, with N at most the
\* depth cutoff, gives exactly N frames, innermost first, each with the frame
\* address and the return address of its record.
C9_RootChainWithinCutoff ==
    walk.built
      => \A c \in ChainSeqs :
            (RootChain(c) /\ Len(c) <= kMaxDepth) => GetFrames = FramesOf(c)

\* A chain as long as the cutoff allows has been walked to the root.
C9_Witness ==
    /\ walk.built
    /\ \E c \in ChainSeqs :
          /\ RootChain(c)
          /\ Len(c) = kMaxDepth
          /\ GetFrames = FramesOf(c)
          /\ GetFrames[1].retAddr # GetFrames[2].retAddr

\* C10 as stated: a chain whose frame pointer at position k is out of bounds
\* gives exactly the k frames before it, whatever k, reads nothing outside
\* the bounds and fails nowhere.
C10_BrokenChainGivesPrefix ==
    walk.built
      => \A c \in ChainSeqs :
            BrokenChain(c)
              => /\ GetFrames = FramesOf(c)
                 /\ walk.derefs \subseteq StackAddrs
                 /\ ~walk.failed

\* C10, amended: a chain whose frame pointer at position k is out of bounds,
\* with k at most the depth cutoff, gives exactly the k frames before it; in
\* every case the walk reads only records inside the bounds, and only those
\* of the frames it gives, and fails nowhere.
C10_BrokenChainWithinCutoff ==
    walk.built
      => \A c \in ChainSeqs :
            BrokenChain(c)
              => /\ Len(c) <= kMaxDepth => GetFrames = FramesOf(c)
                 /\ walk.derefs \subseteq StackAddrs
                 /\ walk.derefs = { GetFrames[i].frameAddr :
                                      i \in DOMAIN GetFrames }
                 /\ ~walk.failed

\* The walk has stopped at an out-of-bounds link after two frames.
C10_Witness ==
    /\ walk.built
    /\ \E c \in ChainSeqs :
          /\ BrokenChain(c)
          /\ Len(c) = 2
          /\ ~InBounds(mem[c[2]].prev)
          /\ GetFrames = FramesOf(c)
          /\ Len(GetFrames) = 2


\* ------------------------------------------------------------------ C11

\* The links followed from frame pointer f, n of them: the chain as the
\* stack memory holds it, however long and whether or not it closes on
\* itself.
RECURSIVE LinkAfter(_, _)
LinkAfter(f, n) ==
    IF n = 0 \/ ~InBounds(f) THEN f ELSE LinkAfter(mem[f].prev, n - 1)

\* A chain that never ends: following the links from f never leaves the
\* stack region, so some frame pointer comes up again.
CyclicFrom(f) == \A n \in 0..NFrames : InBounds(LinkAfter(f, n))

\* C11: whatever the frame chain, cyclic and self-referential ones included,
\* the walk ends with at most kMaxDepth frames built and at most kMaxDepth
\* records read, a number that does not grow with the chain.
C11_WalkBoundedByCutoff ==
    walk.built =>
        /\ Len(GetFrames) <= kMaxDepth
        /\ Cardinality(walk.derefs) <= kMaxDepth
        /\ CyclicFrom(walk.start) => Len(GetFrames) = kMaxDepth

\* A walk of a record that links to itself, ended by the cutoff.
C11_Witness ==
    /\ walk.built
    /\ InBounds(walk.start)
    /\ mem[walk.start].prev = walk.start
    /\ Len(GetFrames) = kMaxDepth

\* ------------------------------------------------------------------ C12

\* C12: a call stack built when the frame pointer the walk starts from is
\* the root, 0, has no frames.  The constructor's argument 0 stands for the
\* current frame amx->frm, so the walk starts from the root exactly when the
\* argument is 0 and amx->frm is 0.
C12_RootStartGivesNoFrames ==
    (walk.built /\ walk.start = 0) => GetFrames = << >>

\* A call stack built from the root while the stack region holds linked
\* records.
C12_Witness ==
    /\ walk.built
    /\ walk.arg = 0
    /\ amx_frm = 0
    /\ walk.start = 0
    /\ \E a \in StackAddrs : InBounds(mem[a].prev)
    /\ GetFrames = << >>


\* ------------------------------------------------------------------ C13

\* C13: a string longer than kMaxString = 30 is kept as its first 30
\* characters and marked truncated; a string of at most 30 characters is
\* kept as it is and not marked.
C13_StringClippedAtMax ==
    string_.set =>
        LET L == Len(amx_string)
            kept == GetString.text
        IN  /\ kMaxString = 30
            /\ \A i \in 1..Len(kept) : kept[i] = amx_string[i]
            /\ IF L > 30
               THEN Len(kept) = 30 /\ GetString.truncated
               ELSE Len(kept) = L /\ ~GetString.truncated

\* A captured string one character longer than the maximum.
C13_Witness ==
    /\ string_.set
    /\ Len(amx_string) = kMaxString + 1
    /\ GetString.truncated
    /\ Len(GetString.text) = kMaxString
    /\ GetString.text # amx_string


\* ------------------------------------------------------------------ C14

\* C14: once the call stack is built, no step changes what GetFrames
\* returns: not a move of amx->frm, not a write to the stack memory, and not
\* a change the caller makes to the frame sequence it was handed.
C14_SnapshotDetached ==
    [][walk.built => (walk'.built /\ GetFrames' = GetFrames)]_vars

\* The instance has run on since the construction, so that a walk from the
\* same frame pointer would now give other frames, and the caller has removed
\* a frame from the sequence it was handed.
C14_Witness ==
    /\ walk.built
    /\ GetFrames # << >>
    /\ amx_frm # walk.start
    /\ WalkFrom(walk.start, 0).frames # GetFrames
    /\ returned.got
    /\ returned.frames # GetFrames


\* ------------------------------------------------------------------ C15

\* C15: when Load has returned true, the execute hook, the file-open hook,
\* the crash handler OnCrash and the interrupt handler OnInterrupt are all
\* installed; and the fault handlers are registered only once the execute
\* hook is installed, so in no state is one of them registered without it.
C15_LoadTrueMeansAllInstalled ==
    /\ (lastOp.op = "Load" /\ lastOp.ret = "true") =>
          /\ amx_exec_hook
          /\ ReadDst(amx_Exec_code) = "ProcessExec"
          /\ fopen_hook
          /\ crash_handler = "OnCrash"
          /\ interrupt_handler = "OnInterrupt"
    /\ (crash_handler # "default" \/ interrupt_handler # "default") =>
          /\ amx_exec_hook
          /\ ReadDst(amx_Exec_code) = "ProcessExec"

\* Load has just returned true with everything installed.
C15_Witness ==
    /\ lastOp.op = "Load"
    /\ lastOp.ret = "true"
    /\ amx_exec_hook
    /\ fopen_hook
    /\ crash_handler = "OnCrash"
    /\ interrupt_handler = "OnInterrupt"


\* ------------------------------------------------------------------ C16

\* C16: an amx_Exec call on an instance that has the browse flag set, or that
\* has no coordinator in the registry, is not handed to any coordinator and
\* returns the original amx_Exec's code as it is, unreported; every other
\* call is handed to the coordinator the registry holds for its own
\* instance, which is the coordinator of no other instance.
C16_ExecRoutedToOwnCoordinator ==
    /\ \A i \in DOMAIN calls :
          LET f == calls[i]
          IN  IF f.browse \/ ~f.registered
              THEN f.handler = NULL
              ELSE /\ f.handler # NULL
                   /\ f.handler = GetHandler(f.amx)
                   /\ heap[f.handler] = f.amx
                   /\ \A b \in AMXs \ {f.amx} : GetHandler(b) # f.handler
    /\ (lastOp.op = "ExecEnter" /\ calls # << >>) =>
          lastOp.handler = calls[Len(calls)].handler
    /\ (lastOp.op = "ExecReturn" /\ lastOp.handler = NULL) =>
          (lastOp.ret = lastOp.orig /\ ~lastOp.reported)

\* A call on an instance with the browse flag set and a coordinator in the
\* registry went past the coordinator, while a call on another instance is
\* with that instance's own coordinator.
C16_Witness ==
    \E i, j \in DOMAIN calls :
        /\ calls[i].browse
        /\ calls[i].registered
        /\ calls[i].handler = NULL
        /\ calls[j].amx # calls[i].amx
        /\ calls[j].handler # NULL
        /\ calls[j].handler = GetHandler(calls[j].amx)


\* ------------------------------------------------------------------ C17

\* C17: at every point of AmxLoad, an instance that has the debug hook, the
\* callback or the exec-error handler of the plugin registered has a
\* coordinator in the registry, and that coordinator's Load has completed;
\* so no hook called during the attach finds the registry without one.
C17_HooksRegisteredAfterCoordinator ==
    /\ \A a \in AMXs :
          ( \/ amx[a].debug = "ProcessDebugHook"
            \/ amx[a].callback = "ProcessCallback"
            \/ amx[a].exec_error = "ProcessExecError" ) =>
             /\ GetHandler(a) # NULL
             /\ heap[GetHandler(a)] = a
             /\ attach.amx = a => attach.loaded
    /\ ~ub

\* A hook of the instance was called while its AmxLoad had still to register
\* the natives and return, and found the coordinator.
C17_Witness ==
    /\ attach # NoAttach
    /\ AmxLoadOrder[attach.pc] = "RegisterNatives"
    /\ amx[attach.amx].debug = "ProcessDebugHook"
    /\ lastOp.op = "ProcessDebugHook"
    /\ lastOp.amx = attach.amx
    /\ lastOp.handler = GetHandler(attach.amx)
    /\ lastOp.handler # NULL


\* ------------------------------------------------------------------ C18

\* C18: a call through FopenHook, whatever the extension of the file name,
\* calls the C library's fopen once, with the file name and the mode it was
\* given, and returns what that call returned; and the hook is installed
\* again when FopenHook has returned, so the next fopen is intercepted too.
C18_FopenPassesThrough ==
    lastOp.op = "FopenHook" =>
        /\ Len(lastOp.real) = 1
        /\ lastOp.real[1].filename = lastOp.path
        /\ lastOp.real[1].mode = lastOp.mode
        /\ lastOp.ret = lastOp.orig
        /\ fopen_hook

\* A file with another extension was opened for writing, the C library's
\* fopen failed, and FopenHook returned its NULL with the hook back in place.
C18_Witness ==
    /\ lastOp.op = "FopenHook"
    /\ GetFileExtensionPtr(lastOp.path) # NullStr
    /\ CompareIgnoreCase(GetFileExtensionPtr(lastOp.path), Str_amx) # 0
    /\ lastOp.mode = "wb"
    /\ lastOp.real = <<[filename |-> lastOp.path, mode |-> "wb"]>>
    /\ lastOp.orig = "NULL"
    /\ lastOp.ret = "NULL"
    /\ fopen_hook

====
